---- MODULE Spec2Model ----
(***************************************************************************)
(* colorblend: a command-line filter that reads text from stdin and writes *)
(* it to stdout with an ANSI truecolor gradient.  src/main.go holds three  *)
(* program variants, each a complete `package main`:                       *)
(*   "cobra" (lines 1-252)   cobra flags, HCL blend with hue direction     *)
(*   "flag"  (lines 254-510) flag package, --colorspace rgb|hcl|lab        *)
(*   "basic" (lines 512-615) no flags, hand-rolled hex parser, RGB blend   *)
(*                                                                         *)
(* float64 values are modelled as reduced rationals <<n, d>>.  A float64   *)
(* holds a small rational exactly iff its denominator is a power of two;   *)
(* math.Round applied to a value computed from an inexact operand that is  *)
(* mathematically halfway between two integers may land on either side,    *)
(* so the model takes both outcomes there.                                 *)
(***************************************************************************)
EXTENDS Integers, Sequences, FiniteSets, TLC

VARIABLES
    variant,              \* which of the three programs of src/main.go runs
    cfg,                  \* the command line: flag values and argument count
    pc,                   \* position of the process in its main function
    lines,                \* lines [][]rune read so far (cobra, flag)
    runes,                \* runes read so far (basic)
    stdinReads,           \* number of read calls issued on stdin
    out,                  \* what has been written to stdout, as tokens
    exitCode,             \* process exit status, meaningful when pc = "exited"
    totalGradientUnits,   \* totalGradientUnits / totalChars
    lineIndex,            \* index of the range loop over lines (runes in basic)
    charIndex,            \* index of the range loop over the current line
    charCountHorizontal,  \* charCountHorizontal
    calls,                \* log of the getGradientColor calls made so far
    fnArgs,               \* SpecColor: arguments of a getGradientColor call
    fnRet                 \* SpecColor: what that call returned

vars == <<variant, cfg, pc, lines, runes, stdinReads, out, exitCode,
          totalGradientUnits, lineIndex, charIndex, charCountHorizontal,
          calls, fnArgs, fnRet>>

(***************************************************************************)
(* Bounds of the model.                                                    *)
(***************************************************************************)
MaxLines == 3
MaxLineLen == 3
MaxSteps == 3
MaxRunes == 3
MaxDen == 6
HueSamples == 12

(***************************************************************************)
(* Rationals standing for float64 values.                                  *)
(***************************************************************************)
Abs(x) == IF x < 0 THEN -x ELSE x

RECURSIVE GCD(_, _)
GCD(a, b) == IF b = 0 THEN a ELSE GCD(b, a % b)

Norm(n, d) ==
    LET g == GCD(Abs(n), Abs(d))
        s == IF d < 0 THEN -1 ELSE 1
    IN <<(s * n) \div g, (s * d) \div g>>

Zero == <<0, 1>>
One == <<1, 1>>
FromInt(i) == <<i, 1>>
RAdd(a, b) == Norm(a[1] * b[2] + b[1] * a[2], a[2] * b[2])
RSub(a, b) == Norm(a[1] * b[2] - b[1] * a[2], a[2] * b[2])
RMul(a, b) == Norm(a[1] * b[1], a[2] * b[2])
RLeq(a, b) == a[1] * b[2] <= b[1] * a[2]
RLess(a, b) == a[1] * b[2] < b[1] * a[2]

RECURSIVE IsPowerOfTwo(_)
IsPowerOfTwo(d) == IF d = 1 THEN TRUE
                   ELSE IF d % 2 = 1 THEN FALSE ELSE IsPowerOfTwo(d \div 2)

\* a reduced rational of small magnitude is a float64 iff it is dyadic
IsExact(a) == IsPowerOfTwo(a[2])

Floor(a) == a[1] \div a[2]
IsHalfway(a) == a[2] = 2

\* math.Round on an exactly computed float64: half away from zero
RoundHalfAway(a) ==
    IF a[1] >= 0 THEN (2 * a[1] + a[2]) \div (2 * a[2])
    ELSE -((2 * (-a[1]) + a[2]) \div (2 * a[2]))

\* math.Round(x) where x was computed in float64 and stands for the rational a;
\* `exact` tells whether the computation of x involved no rounding
MathRound(a, exact) ==
    IF IsHalfway(a) /\ ~exact THEN {Floor(a), Floor(a) + 1}
    ELSE {RoundHalfAway(a)}

(***************************************************************************)
(* Command lines.  A color is the flag's string, as a sequence of          *)
(* characters.                                                             *)
(***************************************************************************)
HexDigits == {"0", "1", "2", "3", "4", "5", "6", "7", "8", "9",
              "a", "b", "c", "d", "e", "f", "A", "B", "C", "D", "E", "F"}

Magenta == <<"#", "F", "F", "0", "0", "F", "F">>
Cyan == <<"#", "0", "0", "F", "F", "F", "F">>
BadStart == <<"#", "G", "G", "G", "G", "G", "G">>
BadEnd == <<"#", "X", "Y", "Z", "X", "Y", "Z">>

StartColors == {Magenta, BadStart}
EndColors == {Cyan, BadEnd}
GradientDirections == {"horizontal", "vertical", "diagonal"}
HueDirections == {"shortest", "clockwise", "around-the-world"}
Colorspaces == {"rgb", "hcl", "hsv"}
StepValues == (-1) .. MaxSteps
ArgCounts == {0, 1}

\* the flags of the cobra program; it has no --colorspace and blends in HCL
CobraConfigs ==
    [startColor : StartColors, endColor : EndColors,
     gradientDirection : GradientDirections, colorspace : {"hcl"},
     hueDirection : HueDirections, steps : StepValues, invert : BOOLEAN,
     nargs : ArgCounts, help : BOOLEAN, version : BOOLEAN]

\* the flags of the flag-package program
FlagConfigs ==
    [startColor : StartColors, endColor : EndColors,
     gradientDirection : GradientDirections, colorspace : Colorspaces,
     hueDirection : HueDirections, steps : StepValues, invert : BOOLEAN,
     nargs : ArgCounts, help : BOOLEAN, version : BOOLEAN]

\* the basic program takes no flags: gradStart and gradEnd are constants
BasicConfig ==
    [startColor |-> Magenta, endColor |-> Cyan,
     gradientDirection |-> "horizontal", colorspace |-> "rgb",
     hueDirection |-> "shortest", steps |-> 0, invert |-> FALSE,
     nargs |-> 0, help |-> FALSE, version |-> FALSE]

\* colorful.Hex(s) returns no error; on the seven-character strings used here
\* that is: '#' followed by six hexadecimal digits
ColorfulHexOk(s) ==
    /\ Len(s) = 7
    /\ s[1] = "#"
    /\ \A i \in 2 .. 7 : s[i] \in HexDigits

(***************************************************************************)
(* Standard output, as a sequence of tokens.                               *)
(***************************************************************************)
NoColor == [p |-> Zero, space |-> "none", hue |-> "none", rgb |-> <<>>]
Tok(k, r, c) == [kind |-> k, rune |-> r, color |-> c]
Esc(c) == Tok("color", 0, c)              \* ESC[38;2;R;G;Bm
Ch(r) == Tok("rune", r, NoColor)          \* one character, %c
NL == Tok("newline", 0, NoColor)          \* \n
Reset == Tok("reset", 0, NoColor)         \* ESC[0m
VersionLine == Tok("version", 0, NoColor) \* colorblend v1.0.0\n
BadVerbS(r) == Tok("%!s(int32)", r, NoColor)   \* %s given a rune
MissingS == Tok("%!s(MISSING)", 0, NoColor)    \* %s given no operand
MissingC == Tok("%!c(MISSING)", 0, NoColor)    \* %c given no operand

\* the rune at column j (from 1) of the k-th line read (from 0): the input
\* text has pairwise distinct characters
RuneAt(k, j) == (k + 1) * 10 + j
LineOfLen(k, n) == [j \in 1 .. n |-> RuneAt(k, j)]

(***************************************************************************)
(* Progress of one gradient unit.                                          *)
(***************************************************************************)
\* dividing by the number of units instead of the span
RawProgressOverTotal(position, total) ==
    IF total > 1 THEN Norm(position, total) ELSE Zero

\* counting positions from one
RawProgressOneBased(position, total) ==
    IF total > 0 THEN Norm(position + 1, total) ELSE Zero

\* progress := 0.0, or position / (totalGradientUnits - 1) when there is more
\* than one unit
RawProgress(position, total) ==
    IF total > 1 THEN Norm(position, total - 1) ELSE Zero

\* the invert flag left out
InvertProgressIgnored(progress, invert) == progress

\* negating instead of complementing
InvertProgressNegated(progress, invert) ==
    IF invert THEN RSub(Zero, progress) ELSE progress

\* if invert { progress = 1.0 - progress }
InvertProgress(progress, invert) ==
    IF invert THEN RSub(One, progress) ELSE progress

\* truncating instead of rounding
StepProgressFloor(progress, steps) ==
    IF steps > 0
    THEN {Norm(Floor(RMul(progress, FromInt(steps))), steps)}
    ELSE {progress}

\* if steps > 0 { progress = math.Round(progress*steps) / steps }
StepProgress(progress, steps) ==
    IF steps > 0
    THEN {Norm(m, steps) :
            m \in MathRound(RMul(progress, FromInt(steps)), IsExact(progress))}
    ELSE {progress}

\* the values `progress` can have when getGradientColor is called
UnitProgress(position, total, invert, steps) ==
    StepProgress(InvertProgress(RawProgress(position, total), invert), steps)

Call(l, pos, r, p) == [line |-> l, pos |-> pos, rune |-> r, p |-> p]

(***************************************************************************)
(* The cobra program (src/main.go lines 1-252).                            *)
(***************************************************************************)
\* getGradientColor(progress, startHex, endHex, hueDirection): the color part
\* of the escape sequence; the blend and the conversion to RGB are go-colorful's
getGradientColorHcl(progress, startHex, endHex, hue) ==
    IF ~ColorfulHexOk(startHex) \/ ~ColorfulHexOk(endHex)
    THEN [err |-> TRUE, color |-> NoColor]
    ELSE [err |-> FALSE,
          color |-> [p |-> progress, space |-> "hcl", hue |-> hue, rgb |-> <<>>]]

Exit(code) == pc' = "exited" /\ exitCode' = code

\* the check of --steps left out
RunValidationErrorNoSteps(c) ==
    \/ ~ColorfulHexOk(c.startColor)
    \/ ~ColorfulHexOk(c.endColor)
    \/ c.gradientDirection \notin {"horizontal", "vertical"}
    \/ c.nargs > 0

\* the checks that end rootCmd.Run with os.Exit(1)
RunValidationError(c) ==
    \/ ~ColorfulHexOk(c.startColor)
    \/ ~ColorfulHexOk(c.endColor)
    \/ c.gradientDirection \notin {"horizontal", "vertical"}
    \/ c.steps < 0
    \/ c.nargs > 0

\* PersistentPreRun: --version prints the version and exits 0, --help prints
\* the usage to stderr and exits 0
PersistentPreRun ==
    /\ variant = "cobra" /\ pc = "start"
    /\ IF cfg.version
       THEN out' = Append(out, VersionLine) /\ Exit(0)
       ELSE IF cfg.help
            THEN out' = out /\ Exit(0)
            ELSE out' = out /\ pc' = "validate" /\ exitCode' = exitCode
    /\ UNCHANGED <<variant, cfg, lines, runes, stdinReads, totalGradientUnits,
                   lineIndex, charIndex, charCountHorizontal, calls, fnArgs, fnRet>>

RunValidate ==
    /\ variant = "cobra" /\ pc = "validate"
    /\ IF RunValidationError(cfg)
       THEN Exit(1)
       ELSE pc' = "read" /\ exitCode' = exitCode
    /\ UNCHANGED <<variant, cfg, lines, runes, stdinReads, out, totalGradientUnits,
                   lineIndex, charIndex, charCountHorizontal, calls, fnArgs, fnRet>>

\* reader.ReadLine() returns a line
RunReadLine ==
    /\ variant = "cobra" /\ pc = "read"
    /\ Len(lines) < MaxLines
    /\ \E n \in 0 .. MaxLineLen :
         lines' = Append(lines, LineOfLen(Len(lines), n))
    /\ stdinReads' = stdinReads + 1
    /\ UNCHANGED <<variant, cfg, pc, runes, out, exitCode, totalGradientUnits,
                   lineIndex, charIndex, charCountHorizontal, calls, fnArgs, fnRet>>

\* reader.ReadLine() returns io.EOF
RunReadEOF ==
    /\ variant = "cobra" /\ pc = "read"
    /\ stdinReads' = stdinReads + 1
    /\ pc' = "count"
    /\ UNCHANGED <<variant, cfg, lines, runes, out, exitCode, totalGradientUnits,
                   lineIndex, charIndex, charCountHorizontal, calls, fnArgs, fnRet>>

\* a failed read that still writes the reset before exiting
RunReadErrorFlush ==
    /\ variant = "cobra" /\ pc = "read"
    /\ stdinReads' = stdinReads + 1
    /\ out' = out \o <<Reset, NL>>
    /\ Exit(1)
    /\ UNCHANGED <<variant, cfg, lines, runes, totalGradientUnits,
                   lineIndex, charIndex, charCountHorizontal, calls, fnArgs, fnRet>>

\* reader.ReadLine() returns another error
RunReadError ==
    /\ variant = "cobra" /\ pc = "read"
    /\ stdinReads' = stdinReads + 1
    /\ Exit(1)
    /\ UNCHANGED <<variant, cfg, lines, runes, out, totalGradientUnits,
                   lineIndex, charIndex, charCountHorizontal, calls, fnArgs, fnRet>>

RECURSIVE SumLen(_)
SumLen(ls) == IF ls = <<>> THEN 0 ELSE Len(Head(ls)) + SumLen(Tail(ls))

RECURSIVE Repeat(_, _)
Repeat(s, n) == IF n = 0 THEN <<>> ELSE s \o Repeat(s, n - 1)

\* from `if len(lines) == 0` to `charCountHorizontal := 0`
RunCount ==
    /\ variant = "cobra" /\ pc = "count"
    /\ IF Len(lines) = 0
       THEN /\ out' = out \o <<Reset, NL>>
            /\ Exit(0)
            /\ UNCHANGED totalGradientUnits
       ELSE IF cfg.gradientDirection = "horizontal" /\ SumLen(lines) = 0
            THEN /\ out' = out \o Repeat(<<Reset, NL>>, Len(lines))
                 /\ Exit(0)
                 /\ totalGradientUnits' = 0
            ELSE /\ totalGradientUnits' =
                      IF cfg.gradientDirection = "horizontal"
                      THEN SumLen(lines) ELSE Len(lines)
                 /\ pc' = "line"
                 /\ UNCHANGED <<out, exitCode>>
    /\ charCountHorizontal' = 0
    /\ lineIndex' = 0
    /\ UNCHANGED <<variant, cfg, lines, runes, stdinReads, charIndex, calls,
                   fnArgs, fnRet>>

\* the head of `for lineIndex, line := range lines`, and its branch for an
\* empty line of a vertical gradient
RunLine ==
    /\ variant = "cobra" /\ pc = "line"
    /\ lineIndex < Len(lines)
    /\ LET line == lines[lineIndex + 1] IN
       IF cfg.gradientDirection = "vertical" /\ Len(line) = 0 /\ totalGradientUnits > 1
       THEN \E progress \in UnitProgress(lineIndex, totalGradientUnits,
                                         cfg.invert, cfg.steps) :
              LET res == getGradientColorHcl(progress, cfg.startColor,
                                             cfg.endColor, cfg.hueDirection) IN
              /\ calls' = Append(calls, Call(lineIndex, lineIndex, 0, progress))
              /\ IF res.err
                 THEN Exit(1) /\ UNCHANGED <<out, lineIndex>>
                 ELSE /\ out' = out \o <<Esc(res.color), NL>>
                      /\ lineIndex' = lineIndex + 1
                      /\ UNCHANGED <<pc, exitCode>>
              /\ UNCHANGED charIndex
       ELSE /\ charIndex' = 0
            /\ pc' = "char"
            /\ UNCHANGED <<out, lineIndex, exitCode, calls>>
    /\ UNCHANGED <<variant, cfg, lines, runes, stdinReads, totalGradientUnits,
                   charCountHorizontal, fnArgs, fnRet>>

\* one iteration of `for _, char := range line`
RunChar ==
    /\ variant = "cobra" /\ pc = "char"
    /\ charIndex < Len(lines[lineIndex + 1])
    /\ LET char == lines[lineIndex + 1][charIndex + 1]
           position == IF cfg.gradientDirection = "horizontal"
                       THEN charCountHorizontal ELSE lineIndex
       IN \E progress \in UnitProgress(position, totalGradientUnits,
                                       cfg.invert, cfg.steps) :
            LET res == getGradientColorHcl(progress, cfg.startColor,
                                           cfg.endColor, cfg.hueDirection) IN
            /\ calls' = Append(calls, Call(lineIndex, position, char, progress))
            /\ charCountHorizontal' =
                 IF cfg.gradientDirection = "horizontal"
                 THEN charCountHorizontal + 1 ELSE charCountHorizontal
            /\ IF res.err
               THEN Exit(1) /\ UNCHANGED <<out, charIndex>>
               ELSE /\ out' = out \o <<Esc(res.color), Ch(char)>>
                    /\ charIndex' = charIndex + 1
                    /\ UNCHANGED <<pc, exitCode>>
    /\ UNCHANGED <<variant, cfg, lines, runes, stdinReads, totalGradientUnits,
                   lineIndex, fnArgs, fnRet>>

\* after the last character of a line: the line break
RunEndLine ==
    /\ variant = "cobra" /\ pc = "char"
    /\ charIndex = Len(lines[lineIndex + 1])
    /\ out' = IF ~(cfg.gradientDirection = "vertical"
                   /\ Len(lines[lineIndex + 1]) = 0 /\ totalGradientUnits > 1)
              THEN Append(out, NL) ELSE out
    /\ lineIndex' = lineIndex + 1
    /\ pc' = "line"
    /\ UNCHANGED <<variant, cfg, lines, runes, stdinReads, exitCode,
                   totalGradientUnits, charIndex, charCountHorizontal, calls,
                   fnArgs, fnRet>>

\* the final reset left out
RunFinishNoReset ==
    /\ variant = "cobra" /\ pc = "line"
    /\ lineIndex = Len(lines)
    /\ out' = out
    /\ Exit(0)
    /\ UNCHANGED <<variant, cfg, lines, runes, stdinReads, totalGradientUnits,
                   lineIndex, charIndex, charCountHorizontal, calls, fnArgs, fnRet>>

\* after the last line: the reset, and Run returns
RunFinish ==
    /\ variant = "cobra" /\ pc = "line"
    /\ lineIndex = Len(lines)
    /\ out' = out \o <<Reset, NL>>
    /\ Exit(0)
    /\ UNCHANGED <<variant, cfg, lines, runes, stdinReads, totalGradientUnits,
                   lineIndex, charIndex, charCountHorizontal, calls, fnArgs, fnRet>>

NextCobra ==
    \/ PersistentPreRun \/ RunValidate
    \/ RunReadLine \/ RunReadEOF \/ RunReadError
    \/ RunCount \/ RunLine \/ RunChar \/ RunEndLine \/ RunFinish

(***************************************************************************)
(* The flag-package program (src/main.go lines 254-510).                   *)
(***************************************************************************)
\* getGradientColor(progress, startHex, endHex, colorspace, hueDirection):
\* BlendRgb, BlendHcl or BlendLab of go-colorful; hueDirection is not used
getGradientColorSpace(progress, startHex, endHex, colorspace, hue) ==
    IF ~ColorfulHexOk(startHex) \/ ~ColorfulHexOk(endHex)
    THEN [err |-> TRUE, color |-> NoColor]
    ELSE IF colorspace \notin {"rgb", "hcl", "lab"}
         THEN [err |-> TRUE, color |-> NoColor]
         ELSE [err |-> FALSE,
               color |-> [p |-> progress, space |-> colorspace,
                          hue |-> "default", rgb |-> <<>>]]

\* fmt.Printf("\x1b[%s%s\n", colorPart): the second %s has no operand
PrintfEmptyLine(colorPart) == <<Esc(colorPart), MissingS, NL>>

\* fmt.Printf("\x1b[%s%s%c", colorPart, char): the second %s takes the rune,
\* %c has no operand
PrintfChar(colorPart, char) == <<Esc(colorPart), BadVerbS(char), MissingC>>

\* the checks that end main with osExit(1)
MainValidationError(c) ==
    \/ ~ColorfulHexOk(c.startColor)
    \/ ~ColorfulHexOk(c.endColor)
    \/ c.gradientDirection \notin {"horizontal", "vertical"}
    \/ c.colorspace \notin {"rgb", "hcl", "lab"}
    \/ /\ c.colorspace \in {"hcl", "lab"}
       /\ c.hueDirection \notin {"shortest", "clockwise", "counter-clockwise"}
    \/ c.steps < 0
    \/ c.nargs > 0

\* after flag.Parse(): --version prints the version and exits 0, --help prints
\* the usage to stderr and exits 0
MainParseFlags ==
    /\ variant = "flag" /\ pc = "start"
    /\ IF cfg.version
       THEN out' = Append(out, VersionLine) /\ Exit(0)
       ELSE IF cfg.help
            THEN out' = out /\ Exit(0)
            ELSE out' = out /\ pc' = "validate" /\ exitCode' = exitCode
    /\ UNCHANGED <<variant, cfg, lines, runes, stdinReads, totalGradientUnits,
                   lineIndex, charIndex, charCountHorizontal, calls, fnArgs, fnRet>>

MainValidate ==
    /\ variant = "flag" /\ pc = "validate"
    /\ IF MainValidationError(cfg)
       THEN Exit(1)
       ELSE pc' = "read" /\ exitCode' = exitCode
    /\ UNCHANGED <<variant, cfg, lines, runes, stdinReads, out, totalGradientUnits,
                   lineIndex, charIndex, charCountHorizontal, calls, fnArgs, fnRet>>

\* reader.ReadLine() returns a line
MainReadLine ==
    /\ variant = "flag" /\ pc = "read"
    /\ Len(lines) < MaxLines
    /\ \E n \in 0 .. MaxLineLen :
         lines' = Append(lines, LineOfLen(Len(lines), n))
    /\ stdinReads' = stdinReads + 1
    /\ UNCHANGED <<variant, cfg, pc, runes, out, exitCode, totalGradientUnits,
                   lineIndex, charIndex, charCountHorizontal, calls, fnArgs, fnRet>>

\* reader.ReadLine() returns io.EOF
MainReadEOF ==
    /\ variant = "flag" /\ pc = "read"
    /\ stdinReads' = stdinReads + 1
    /\ pc' = "count"
    /\ UNCHANGED <<variant, cfg, lines, runes, out, exitCode, totalGradientUnits,
                   lineIndex, charIndex, charCountHorizontal, calls, fnArgs, fnRet>>

\* reader.ReadLine() returns another error
MainReadError ==
    /\ variant = "flag" /\ pc = "read"
    /\ stdinReads' = stdinReads + 1
    /\ Exit(1)
    /\ UNCHANGED <<variant, cfg, lines, runes, out, totalGradientUnits,
                   lineIndex, charIndex, charCountHorizontal, calls, fnArgs, fnRet>>

\* from `if len(lines) == 0` to `charCountHorizontal := 0`
MainCount ==
    /\ variant = "flag" /\ pc = "count"
    /\ IF Len(lines) = 0
       THEN /\ out' = out \o <<Reset, NL>>
            /\ Exit(0)
            /\ UNCHANGED totalGradientUnits
       ELSE IF cfg.gradientDirection = "horizontal" /\ SumLen(lines) = 0
            THEN /\ out' = out \o Repeat(<<Reset, NL>>, Len(lines))
                 /\ Exit(0)
                 /\ totalGradientUnits' = 0
            ELSE /\ totalGradientUnits' =
                      IF cfg.gradientDirection = "horizontal"
                      THEN SumLen(lines) ELSE Len(lines)
                 /\ pc' = "line"
                 /\ UNCHANGED <<out, exitCode>>
    /\ charCountHorizontal' = 0
    /\ lineIndex' = 0
    /\ UNCHANGED <<variant, cfg, lines, runes, stdinReads, charIndex, calls,
                   fnArgs, fnRet>>

\* the head of `for lineIndex, line := range lines`, and its branch for an
\* empty line of a vertical gradient
MainLine ==
    /\ variant = "flag" /\ pc = "line"
    /\ lineIndex < Len(lines)
    /\ LET line == lines[lineIndex + 1] IN
       IF cfg.gradientDirection = "vertical" /\ Len(line) = 0 /\ totalGradientUnits > 1
       THEN \E progress \in UnitProgress(lineIndex, totalGradientUnits,
                                         cfg.invert, cfg.steps) :
              LET res == getGradientColorSpace(progress, cfg.startColor, cfg.endColor,
                                               cfg.colorspace, cfg.hueDirection) IN
              /\ calls' = Append(calls, Call(lineIndex, lineIndex, 0, progress))
              /\ IF res.err
                 THEN Exit(1) /\ UNCHANGED <<out, lineIndex>>
                 ELSE /\ out' = out \o PrintfEmptyLine(res.color)
                      /\ lineIndex' = lineIndex + 1
                      /\ UNCHANGED <<pc, exitCode>>
              /\ UNCHANGED charIndex
       ELSE /\ charIndex' = 0
            /\ pc' = "char"
            /\ UNCHANGED <<out, lineIndex, exitCode, calls>>
    /\ UNCHANGED <<variant, cfg, lines, runes, stdinReads, totalGradientUnits,
                   charCountHorizontal, fnArgs, fnRet>>

\* one iteration of `for _, char := range line`
MainChar ==
    /\ variant = "flag" /\ pc = "char"
    /\ charIndex < Len(lines[lineIndex + 1])
    /\ LET char == lines[lineIndex + 1][charIndex + 1]
           position == IF cfg.gradientDirection = "horizontal"
                       THEN charCountHorizontal ELSE lineIndex
       IN \E progress \in UnitProgress(position, totalGradientUnits,
                                       cfg.invert, cfg.steps) :
            LET res == getGradientColorSpace(progress, cfg.startColor, cfg.endColor,
                                             cfg.colorspace, cfg.hueDirection) IN
            /\ calls' = Append(calls, Call(lineIndex, position, char, progress))
            /\ charCountHorizontal' =
                 IF cfg.gradientDirection = "horizontal"
                 THEN charCountHorizontal + 1 ELSE charCountHorizontal
            /\ IF res.err
               THEN Exit(1) /\ UNCHANGED <<out, charIndex>>
               ELSE /\ out' = out \o PrintfChar(res.color, char)
                    /\ charIndex' = charIndex + 1
                    /\ UNCHANGED <<pc, exitCode>>
    /\ UNCHANGED <<variant, cfg, lines, runes, stdinReads, totalGradientUnits,
                   lineIndex, fnArgs, fnRet>>

\* after the last character of a line: the line break
MainEndLine ==
    /\ variant = "flag" /\ pc = "char"
    /\ charIndex = Len(lines[lineIndex + 1])
    /\ out' = IF ~(cfg.gradientDirection = "vertical"
                   /\ Len(lines[lineIndex + 1]) = 0 /\ totalGradientUnits > 1)
              THEN Append(out, NL) ELSE out
    /\ lineIndex' = lineIndex + 1
    /\ pc' = "line"
    /\ UNCHANGED <<variant, cfg, lines, runes, stdinReads, exitCode,
                   totalGradientUnits, charIndex, charCountHorizontal, calls,
                   fnArgs, fnRet>>

\* after the last line: the reset, and main returns
MainFinish ==
    /\ variant = "flag" /\ pc = "line"
    /\ lineIndex = Len(lines)
    /\ out' = out \o <<Reset, NL>>
    /\ Exit(0)
    /\ UNCHANGED <<variant, cfg, lines, runes, stdinReads, totalGradientUnits,
                   lineIndex, charIndex, charCountHorizontal, calls, fnArgs, fnRet>>

NextFlag ==
    \/ MainParseFlags \/ MainValidate
    \/ MainReadLine \/ MainReadEOF \/ MainReadError
    \/ MainCount \/ MainLine \/ MainChar \/ MainEndLine \/ MainFinish

(***************************************************************************)
(* The basic program (src/main.go lines 512-615).                          *)
(***************************************************************************)
HexLower == <<"0", "1", "2", "3", "4", "5", "6", "7", "8", "9",
              "a", "b", "c", "d", "e", "f">>
HexUpper == <<"0", "1", "2", "3", "4", "5", "6", "7", "8", "9",
              "A", "B", "C", "D", "E", "F">>
HexVal(c) == CHOOSE v \in 0 .. 15 : HexLower[v + 1] = c \/ HexUpper[v + 1] = c

\* strconv.ParseInt(s, 16, 0) on a two-character string: an optional sign,
\* then at least one hexadecimal digit
ParseInt16(s) ==
    IF s[1] \in {"+", "-"}
    THEN IF s[2] \in HexDigits
         THEN [err |-> FALSE,
               val |-> IF s[1] = "-" THEN -HexVal(s[2]) ELSE HexVal(s[2])]
         ELSE [err |-> TRUE, val |-> 0]
    ELSE IF s[1] \in HexDigits /\ s[2] \in HexDigits
         THEN [err |-> FALSE, val |-> 16 * HexVal(s[1]) + HexVal(s[2])]
         ELSE [err |-> TRUE, val |-> 0]

hexToRGB(hexColor) ==
    IF Len(hexColor) # 7 \/ hexColor[1] # "#"
    THEN [err |-> TRUE, rgb |-> <<0, 0, 0>>]
    ELSE LET r == ParseInt16(SubSeq(hexColor, 2, 3))
             g == ParseInt16(SubSeq(hexColor, 4, 5))
             b == ParseInt16(SubSeq(hexColor, 6, 7))
         IN IF r.err \/ g.err \/ b.err
            THEN [err |-> TRUE, rgb |-> <<0, 0, 0>>]
            ELSE [err |-> FALSE, rgb |-> <<r.val, g.val, b.val>>]

Clamp255(x) == IF x < 0 THEN 0 ELSE IF x > 255 THEN 255 ELSE x

\* truncating instead of rounding
InterpolateChannelTrunc(start, end, progress) ==
    {Clamp255(Floor(RAdd(FromInt(start), RMul(FromInt(end - start), progress))))}

\* int(math.Round(float64(start) + (float64(end)-float64(start))*progress)),
\* then clamped to 0..255
InterpolateChannel(start, end, progress) ==
    {Clamp255(v) :
       v \in MathRound(RAdd(FromInt(start), RMul(FromInt(end - start), progress)),
                       IsExact(progress))}

\* getGradientColor(progress, startHex, endHex): the results it can return
getGradientColor(progress, startHex, endHex) ==
    LET s == hexToRGB(startHex)
        e == hexToRGB(endHex)
    IN IF s.err \/ e.err
       THEN {[err |-> TRUE, color |-> NoColor]}
       ELSE {[err |-> FALSE,
              color |-> [p |-> progress, space |-> "rgb", hue |-> "none",
                         rgb |-> <<r, g, b>>]] :
               r \in InterpolateChannel(s.rgb[1], e.rgb[1], progress),
               g \in InterpolateChannel(s.rgb[2], e.rgb[2], progress),
               b \in InterpolateChannel(s.rgb[3], e.rgb[3], progress)}

\* reader.ReadRune() returns a rune: a line break (code point 10) or another
\* character
BasicReadRune ==
    /\ variant = "basic" /\ pc = "read"
    /\ Len(runes) < MaxRunes
    /\ \E r \in {10, RuneAt(0, Len(runes) + 1)} : runes' = Append(runes, r)
    /\ stdinReads' = stdinReads + 1
    /\ UNCHANGED <<variant, cfg, pc, lines, out, exitCode, totalGradientUnits,
                   lineIndex, charIndex, charCountHorizontal, calls, fnArgs, fnRet>>

\* reader.ReadRune() returns io.EOF
BasicReadEOF ==
    /\ variant = "basic" /\ pc = "read"
    /\ stdinReads' = stdinReads + 1
    /\ pc' = "count"
    /\ UNCHANGED <<variant, cfg, lines, runes, out, exitCode, totalGradientUnits,
                   lineIndex, charIndex, charCountHorizontal, calls, fnArgs, fnRet>>

\* reader.ReadRune() returns another error
BasicReadError ==
    /\ variant = "basic" /\ pc = "read"
    /\ stdinReads' = stdinReads + 1
    /\ Exit(1)
    /\ UNCHANGED <<variant, cfg, lines, runes, out, totalGradientUnits,
                   lineIndex, charIndex, charCountHorizontal, calls, fnArgs, fnRet>>

\* totalChars := len(runes), and the early return on empty input
BasicCount ==
    /\ variant = "basic" /\ pc = "count"
    /\ totalGradientUnits' = Len(runes)
    /\ IF Len(runes) = 0
       THEN out' = out \o <<Reset, NL>> /\ Exit(0)
       ELSE pc' = "char" /\ UNCHANGED <<out, exitCode>>
    /\ lineIndex' = 0
    /\ UNCHANGED <<variant, cfg, lines, runes, stdinReads, charIndex,
                   charCountHorizontal, calls, fnArgs, fnRet>>

\* progress of rune i of totalChars
BasicProgress(i, totalChars) ==
    IF totalChars <= 1 THEN Zero ELSE Norm(i, totalChars - 1)

\* one iteration of `for i, char := range runes`
BasicChar ==
    /\ variant = "basic" /\ pc = "char"
    /\ lineIndex < Len(runes)
    /\ LET char == runes[lineIndex + 1]
           progress == BasicProgress(lineIndex, totalGradientUnits)
       IN \E res \in getGradientColor(progress, cfg.startColor, cfg.endColor) :
            /\ calls' = Append(calls, Call(0, lineIndex, char, progress))
            /\ IF res.err
               THEN Exit(1) /\ UNCHANGED <<out, lineIndex>>
               ELSE /\ out' = out \o <<Esc(res.color), Ch(char)>>
                    /\ lineIndex' = lineIndex + 1
                    /\ UNCHANGED <<pc, exitCode>>
    /\ UNCHANGED <<variant, cfg, lines, runes, stdinReads, totalGradientUnits,
                   charIndex, charCountHorizontal, fnArgs, fnRet>>

\* after the last rune: the reset, and main returns
BasicFinish ==
    /\ variant = "basic" /\ pc = "char"
    /\ lineIndex = Len(runes)
    /\ out' = out \o <<Reset, NL>>
    /\ Exit(0)
    /\ UNCHANGED <<variant, cfg, lines, runes, stdinReads, totalGradientUnits,
                   lineIndex, charIndex, charCountHorizontal, calls, fnArgs, fnRet>>

NextBasic ==
    \/ BasicReadRune \/ BasicReadEOF \/ BasicReadError
    \/ BasicCount \/ BasicChar \/ BasicFinish

(***************************************************************************)
(* Spec: one run of one of the three programs on some command line and     *)
(* some input.                                                             *)
(***************************************************************************)
NoArgs == [progress |-> Zero, startHex |-> <<>>, endHex |-> <<>>]
NoRet == [err |-> FALSE, color |-> NoColor]

Init ==
    /\ variant \in {"cobra", "flag", "basic"}
    /\ cfg \in CASE variant = "cobra" -> CobraConfigs
                 [] variant = "flag" -> FlagConfigs
                 [] OTHER -> {BasicConfig}
    /\ pc = IF variant = "basic" THEN "read" ELSE "start"
    /\ lines = <<>>
    /\ runes = <<>>
    /\ stdinReads = 0
    /\ out = <<>>
    /\ exitCode = 0
    /\ totalGradientUnits = 0
    /\ lineIndex = 0
    /\ charIndex = 0
    /\ charCountHorizontal = 0
    /\ calls = <<>>
    /\ fnArgs = NoArgs
    /\ fnRet = NoRet

Next == NextCobra \/ NextFlag \/ NextBasic

Spec == Init /\ [][Next]_vars

(***************************************************************************)
(* SpecRender: the runs of Spec whose command line has well-formed colors, *)
(* no extra argument, no --help or --version, and the default              *)
(* --hue-direction and color space; the gradient direction, --invert,      *)
(* --steps and the input are as in Spec.                                   *)
(***************************************************************************)
InitRender ==
    /\ Init
    /\ cfg.startColor = Magenta /\ cfg.endColor = Cyan
    /\ cfg.hueDirection = "shortest"
    /\ cfg.colorspace = IF variant = "cobra" THEN "hcl" ELSE "rgb"
    /\ cfg.nargs = 0 /\ ~cfg.help /\ ~cfg.version

SpecRender == InitRender /\ [][Next]_vars

(***************************************************************************)
(* SpecColor: one call of the basic program's getGradientColor.            *)
(***************************************************************************)
White == <<"#", "F", "F", "F", "F", "F", "F">>
Black == <<"#", "0", "0", "0", "0", "0", "0">>
Mixed == <<"#", "7", "f", "8", "0", "0", "1">>
Signed == <<"#", "-", "1", "+", "f", "0", "0">>
HexSamples == {Magenta, Cyan, White, Black, Mixed, Signed, BadStart}

Progresses == {Norm(n, d) : n \in (-1) .. (MaxDen + 1), d \in 1 .. MaxDen}

InitColor ==
    /\ variant = "basic"
    /\ cfg = BasicConfig
    /\ pc = "call"
    /\ lines = <<>>
    /\ runes = <<>>
    /\ stdinReads = 0
    /\ out = <<>>
    /\ exitCode = 0
    /\ totalGradientUnits = 0
    /\ lineIndex = 0
    /\ charIndex = 0
    /\ charCountHorizontal = 0
    /\ calls = <<>>
    /\ fnArgs \in [progress : Progresses, startHex : HexSamples, endHex : HexSamples]
    /\ fnRet = NoRet

CallGetGradientColor ==
    /\ pc = "call"
    /\ fnRet' \in getGradientColor(fnArgs.progress, fnArgs.startHex, fnArgs.endHex)
    /\ pc' = "returned"
    /\ UNCHANGED <<variant, cfg, lines, runes, stdinReads, out, exitCode,
                   totalGradientUnits, lineIndex, charIndex, charCountHorizontal,
                   calls, fnArgs>>

NextColor == CallGetGradientColor

SpecColor == InitColor /\ [][NextColor]_vars

(***************************************************************************)
(* SpecBlend: one call of the cobra program's blendHCLWithDirection.  The  *)
(* conversions between a color and its hue, chroma and luminance are       *)
(* go-colorful's: a color is given here by the triple that c.Hcl()         *)
(* returns, and the blend by the triple handed to colorful.Hcl.            *)
(***************************************************************************)
\* math.Mod(x, y) for y > 0: the remainder has the sign of x
MathMod(x, y) ==
    IF x[1] >= 0
    THEN Norm(x[1] % (y * x[2]), x[2])
    ELSE Norm(-((-x[1]) % (y * x[2])), x[2])

\* without the fold of the shortest arc
DeltaHNoFold(h1, h2, hueDirection) ==
    CASE hueDirection \in {"clockwise", "cw"} ->
           MathMod(RAdd(RSub(h2, h1), FromInt(360)), 360)
      [] hueDirection \in {"counter-clockwise", "counterclockwise", "ccw"} ->
           RSub(Zero, MathMod(RAdd(RSub(h1, h2), FromInt(360)), 360))
      [] OTHER -> RSub(h2, h1)

\* without the math.Mod of the directed arcs
DeltaHNoMod(h1, h2, hueDirection) ==
    CASE hueDirection \in {"clockwise", "cw"} -> RSub(h2, h1)
      [] hueDirection \in {"counter-clockwise", "counterclockwise", "ccw"} ->
           RSub(Zero, RSub(h1, h2))
      [] OTHER -> RSub(h2, h1)

\* the switch on hueDirection, on normalized hues
DeltaH(h1, h2, hueDirection) ==
    LET folded == LET d == RSub(h2, h1)
                  IN IF RLess(FromInt(180), d) THEN RSub(d, FromInt(360))
                     ELSE IF RLess(d, FromInt(-180)) THEN RAdd(d, FromInt(360))
                     ELSE d
    IN CASE hueDirection \in {"shortest", "short", "sh"} -> folded
         [] hueDirection \in {"clockwise", "cw"} ->
              MathMod(RAdd(RSub(h2, h1), FromInt(360)), 360)
         [] hueDirection \in {"counter-clockwise", "counterclockwise", "ccw"} ->
              RSub(Zero, MathMod(RAdd(RSub(h1, h2), FromInt(360)), 360))
         [] OTHER -> folded

\* blendHCLWithDirection(c1, c2, t, hueDirection); besides the blend's h, c
\* and l the record keeps the locals h1, h2 and deltaH, and the argument of
\* the last math.Mod
blendHCLWithDirection(c1, c2, t, hueDirection) ==
    LET h1 == MathMod(RAdd(c1.h, FromInt(360)), 360)
        h2 == MathMod(RAdd(c2.h, FromInt(360)), 360)
        deltaH == DeltaH(h1, h2, hueDirection)
        unwrapped == RAdd(RAdd(h1, RMul(t, deltaH)), FromInt(360))
    IN [h1 |-> h1, h2 |-> h2, deltaH |-> deltaH, unwrapped |-> unwrapped,
        h |-> MathMod(unwrapped, 360),
        c |-> RAdd(c1.c, RMul(t, RSub(c2.c, c1.c))),
        l |-> RAdd(c1.l, RMul(t, RSub(c2.l, c1.l)))]

\* hues returned by c.Hcl(), in degrees
RawHues ==
    {FromInt((k * 360) \div HueSamples) :
       k \in (1 - (HueSamples \div 2)) .. (HueSamples - 1)}

\* the two endpoints differ in chroma and in luminance
StartHcl == [h : RawHues, c : {Norm(1, 2)}, l : {Norm(1, 4)}]
EndHcl == [h : RawHues, c : {One}, l : {One}]

BlendDirections ==
    {"shortest", "clockwise", "cw", "counter-clockwise", "around-the-world"}

\* the values of `progress` with which the rendering loop calls
\* getGradientColor, and so blendHCLWithDirection: position runs over the
\* units of the text, 0 .. totalGradientUnits - 1
LoopUnits == MaxLines * MaxLineLen
LoopProgresses ==
    UNION {UnitProgress(u[1], u[2], invert, steps) :
             u \in {v \in (0 .. (LoopUnits - 1)) \X (1 .. LoopUnits) : v[1] < v[2]},
             invert \in BOOLEAN, steps \in 0 .. MaxSteps}

InitBlend ==
    /\ variant = "cobra"
    /\ cfg \in {c \in CobraConfigs :
                  /\ c.startColor = Magenta /\ c.endColor = Cyan
                  /\ c.gradientDirection = "horizontal"
                  /\ c.hueDirection = "shortest" /\ c.steps = 0 /\ ~c.invert
                  /\ c.nargs = 0 /\ ~c.help /\ ~c.version}
    /\ pc = "call"
    /\ lines = <<>>
    /\ runes = <<>>
    /\ stdinReads = 0
    /\ out = <<>>
    /\ exitCode = 0
    /\ totalGradientUnits = 0
    /\ lineIndex = 0
    /\ charIndex = 0
    /\ charCountHorizontal = 0
    /\ calls = <<>>
    /\ fnArgs \in [c1 : StartHcl, c2 : EndHcl, t : Progresses \cup LoopProgresses,
                   hueDirection : BlendDirections]
    /\ fnRet = NoRet

CallBlendHCLWithDirection ==
    /\ pc = "call"
    /\ fnRet' = blendHCLWithDirection(fnArgs.c1, fnArgs.c2, fnArgs.t,
                                      fnArgs.hueDirection)
    /\ pc' = "returned"
    /\ UNCHANGED <<variant, cfg, lines, runes, stdinReads, out, exitCode,
                   totalGradientUnits, lineIndex, charIndex, charCountHorizontal,
                   calls, fnArgs>>

NextBlend == CallBlendHCLWithDirection

SpecBlend == InitBlend /\ [][NextBlend]_vars

(***************************************************************************)
(* Vocabulary of the properties.                                           *)
(***************************************************************************)
HasDirection == variant \in {"cobra", "flag"}
Informational == cfg.help \/ cfg.version
Horizontal == cfg.gradientDirection = "horizontal"
Vertical == cfg.gradientDirection = "vertical"

\* the run went through the rendering code and returned
Finished == pc = "exited" /\ exitCode = 0 /\ ~Informational

\* the number of gradient units of the input, from the input alone
Total ==
    IF variant = "basic" THEN Len(runes)
    ELSE IF Horizontal THEN SumLen(lines) ELSE Len(lines)

\* the gradient units of the input in rendering order, from the input alone:
\* every character, and in vertical mode with several lines every empty line
RECURSIVE UnitsFrom(_, _)
UnitsFrom(ls, i) ==
    IF i > Len(ls) THEN <<>>
    ELSE (IF Len(ls[i]) > 0
          THEN [j \in 1 .. Len(ls[i]) |-> [line |-> i - 1, rune |-> ls[i][j]]]
          ELSE IF Vertical /\ Len(ls) > 1
               THEN <<[line |-> i - 1, rune |-> 0]>>
               ELSE <<>>)
         \o UnitsFrom(ls, i + 1)

Units == UnitsFrom(lines, 1)

\* the position of the k-th unit (from 1) of the units u: its index among the
\* units in horizontal mode, its line index in vertical mode
PositionOf(u, k) == IF Horizontal THEN k - 1 ELSE u[k].line

\* position / (Total - 1), and its complement when invert is set
RawOf(u, k) == IF Total > 1 THEN Norm(PositionOf(u, k), Total - 1) ELSE Zero
AfterInvertOf(u, k) == IF cfg.invert THEN RSub(One, RawOf(u, k)) ELSE RawOf(u, k)

\* the calls made so far are for the first units of u, in order
CallsFollow(u) ==
    /\ Len(calls) <= Len(u)
    /\ \A k \in 1 .. Len(calls) :
         calls[k].line = u[k].line /\ calls[k].rune = u[k].rune
    /\ Finished => Len(calls) = Len(u)

RECURSIVE CountKind(_, _)
CountKind(o, kind) ==
    IF o = <<>> THEN 0
    ELSE (IF Head(o).kind = kind THEN 1 ELSE 0) + CountKind(Tail(o), kind)

(***************************************************************************)
(* C1: with invert off, steps = 0 and more than one gradient unit, the     *)
(* k-th rendered unit gets progress position/(totalUnits-1); in horizontal *)
(* mode the position is the index of the character in the concatenation   *)
(* of the lines (empty lines take none, the count carries over from line   *)
(* to line), in vertical mode the line index; the first unit gets exactly  *)
(* 0, the last exactly 1, and progress never decreases.                    *)
(***************************************************************************)
C1_ProgressIsPositionOverSpan ==
    (HasDirection /\ ~cfg.invert /\ cfg.steps = 0 /\ calls # <<>> /\ Total > 1) =>
        LET u == Units IN
        /\ CallsFollow(u)
        /\ \A k \in 1 .. Len(calls) :
             /\ calls[k].p = Norm(PositionOf(u, k), Total - 1)
             /\ Horizontal => calls[k].pos = k - 1
             /\ Vertical => calls[k].pos = calls[k].line
             /\ k > 1 => RLeq(calls[k - 1].p, calls[k].p)
        /\ calls[1].p = Zero
        /\ Finished => calls[Len(calls)].p = One

\* a finished horizontal run over three lines, the middle one empty
C1_Witness ==
    /\ HasDirection /\ Finished /\ Horizontal /\ ~cfg.invert /\ cfg.steps = 0
    /\ Len(lines) = 3 /\ Len(lines[1]) = 2 /\ Len(lines[2]) = 0 /\ Len(lines[3]) = 1
    /\ Len(calls) = 3 /\ calls[3].p = One /\ calls[2].p = <<1, 2>>

(***************************************************************************)
(* C3: with steps = k > 0 the progress used for a unit is round(p*k)/k, p  *)
(* being the raw progress after the optional inversion: one of the levels  *)
(* 0, 1/k, ..., k/k, and a level nearest to p (the upper one when p*k is   *)
(* computed exactly and lies halfway); with steps = 0 it is p unchanged.   *)
(***************************************************************************)
C3_StepsQuantizeToNearestLevel ==
    (HasDirection /\ calls # <<>>) =>
        LET u == Units IN
        /\ CallsFollow(u)
        /\ \A i \in 1 .. Len(calls) :
             LET p == AfterInvertOf(u, i)
                 k == cfg.steps
                 used == calls[i].p
             IN IF k = 0 THEN used = p
                ELSE /\ \E m \in 0 .. k : used = Norm(m, k)
                     \* |used - p| <= 1/(2k)
                     /\ RLeq(RSub(used, p), <<1, 2 * k>>)
                     /\ RLeq(RSub(p, used), <<1, 2 * k>>)
                     /\ (IsExact(p) /\ RSub(used, p) # <<1, 2 * k>>)
                            => RLess(RSub(p, used), <<1, 2 * k>>)

\* a unit whose progress was moved to a level by the quantization
C3_Witness ==
    /\ HasDirection /\ Finished /\ cfg.steps = 2 /\ ~cfg.invert /\ Total = 4
    /\ Len(calls) = 4 /\ calls[2].pos = 1 /\ calls[2].p = <<1, 2>>

HalfwayAt(position) ==
    cfg.steps > 0 /\ IsHalfway(Norm(position * cfg.steps, Total - 1))

C5_SingleUnitProgressZero ==
    (calls # <<>> /\ Total <= 1) => \A i \in 1 .. Len(calls) : calls[i].p = Zero

(***************************************************************************)
(* C5 amended: when totalUnits <= 1 the raw progress is 0 (nothing is      *)
(* divided by zero), and the progress used is 0 when invert is clear and 1 *)
(* when invert is set, for every step count: a single unit is rendered in  *)
(* the start color without --invert and in the end color with it.          *)
(***************************************************************************)
C5_SingleUnitProgressZeroOrInverted ==
    (calls # <<>> /\ Total <= 1) =>
        \A i \in 1 .. Len(calls) :
           calls[i].p = IF cfg.invert THEN One ELSE Zero

\* a finished run on a single character with steps and invert set
C5_Witness ==
    /\ HasDirection /\ Finished /\ Horizontal /\ cfg.invert /\ cfg.steps = 2
    /\ Total = 1 /\ Len(calls) = 1 /\ calls[1].p = One

OnlyEmptyLines == HasDirection /\ Horizontal /\ Len(lines) >= 1 /\ SumLen(lines) = 0

C7_EscapeThenCharacter ==
    [][(HasDirection /\ pc = "char") =>
          LET line == lines[lineIndex + 1] IN
          IF charIndex < Len(line)
          THEN /\ Len(out') = Len(out) + 2
               /\ SubSeq(out', 1, Len(out)) = out
               /\ out'[Len(out) + 1].kind = "color"
               /\ out'[Len(out) + 1].color.p = calls'[Len(calls')].p
               /\ out'[Len(out) + 2] = Ch(line[charIndex + 1])
          ELSE Len(line) >= 1 => out' = Append(out, NL)]_vars

(***************************************************************************)
(* C8: in vertical mode with more than one input line, an empty line at    *)
(* index i consumes gradient unit i and is written as exactly the color    *)
(* escape for progress i/(L-1) (after invert and steps) followed directly  *)
(* by one line break.                                                      *)
(***************************************************************************)
C8_EmptyLineIsColoredNewline ==
    [][(HasDirection /\ pc = "line" /\ lineIndex < Len(lines) /\ Vertical
          /\ Len(lines) > 1 /\ Len(lines[lineIndex + 1]) = 0) =>
          /\ lineIndex' = lineIndex + 1
          /\ \E q \in UnitProgress(lineIndex, Len(lines), cfg.invert, cfg.steps) :
               \E c \in [p : {q}, space : {"rgb", "hcl", "lab"},
                         hue : {cfg.hueDirection, "default"}, rgb : {<<>>}] :
                  out' = out \o <<Esc(c), NL>>]_vars

\* '#' followed by exactly six hexadecimal digits
WellFormedColor(s) ==
    Len(s) = 7 /\ s[1] = "#" /\ \A i \in 2 .. 7 : s[i] \in HexDigits

\* the command line is invalid in one of the ways C9 lists
InvalidConfiguration ==
    \/ ~WellFormedColor(cfg.startColor)
    \/ ~WellFormedColor(cfg.endColor)
    \/ cfg.gradientDirection \notin {"horizontal", "vertical"}
    \/ cfg.steps < 0
    \/ cfg.nargs > 0

(***************************************************************************)
(* C9: if the start or end color is malformed, the gradient direction is   *)
(* neither horizontal nor vertical, steps is negative or there are extra   *)
(* positional arguments, the run (without --help or --version) ends with   *)
(* exit code 1, before any read from stdin and before any byte is written  *)
(* to stdout.                                                              *)
(***************************************************************************)
C9_InvalidConfigurationExitsBeforeIO ==
    (HasDirection /\ ~Informational /\ InvalidConfiguration) =>
        /\ pc \in {"start", "validate", "exited"}
        /\ pc = "exited" => exitCode = 1
        /\ stdinReads = 0
        /\ out = <<>>
        /\ calls = <<>>

\* a run rejected for its negative steps alone
C9_Witness ==
    /\ HasDirection /\ ~Informational /\ pc = "exited" /\ exitCode = 1
    /\ cfg.steps < 0 /\ cfg.nargs = 0
    /\ WellFormedColor(cfg.startColor) /\ WellFormedColor(cfg.endColor)
    /\ cfg.gradientDirection = "vertical"
    /\ stdinReads = 0 /\ out = <<>>

(***************************************************************************)
(* C10: every --hue-direction other than shortest, clockwise or            *)
(* counter-clockwise is a validation failure whatever the other flags,     *)
(* the color space included: the run (without --help or --version) ends    *)
(* with exit code 1 and renders no text.                                   *)
(***************************************************************************)
C10_InvalidHueDirectionRejected ==
    (HasDirection /\ ~Informational
       /\ cfg.hueDirection \notin {"shortest", "clockwise", "counter-clockwise"}) =>
        /\ pc = "exited" => exitCode = 1
        /\ calls = <<>>
        /\ CountKind(out, "rune") = 0 /\ CountKind(out, "color") = 0

(***************************************************************************)
(* C2: in the basic program's getGradientColor, for start and end channels *)
(* in 0..255 and progress in [0,1], each output channel is                 *)
(* round(start + progress*(end-start)) clamped to [0,255]: an integer in   *)
(* 0..255, within 1/2 of the exact value (the upper neighbour when the     *)
(* value is computed exactly and lies halfway), the start channel at       *)
(* progress 0, the end channel at progress 1, the rounded average at 1/2.  *)
(***************************************************************************)
ChannelsInRange(rgb) == \A i \in 1 .. 3 : rgb[i] \in 0 .. 255

C2_RgbChannelIsRoundedLinear ==
    LET s == hexToRGB(fnArgs.startHex)
        e == hexToRGB(fnArgs.endHex)
        p == fnArgs.progress
    IN (pc = "returned" /\ ~s.err /\ ~e.err /\ ChannelsInRange(s.rgb)
          /\ ChannelsInRange(e.rgb) /\ RLeq(Zero, p) /\ RLeq(p, One)) =>
         /\ ~fnRet.err
         /\ \A i \in 1 .. 3 :
              LET v == fnRet.color.rgb[i]
                  x == RAdd(FromInt(s.rgb[i]), RMul(p, FromInt(e.rgb[i] - s.rgb[i])))
              IN /\ v \in 0 .. 255
                 /\ RLeq(RSub(FromInt(v), x), <<1, 2>>)
                 /\ RLeq(RSub(x, FromInt(v)), <<1, 2>>)
                 /\ IsExact(p) => RLess(RSub(x, FromInt(v)), <<1, 2>>)
                 /\ p = Zero => v = s.rgb[i]
                 /\ p = One => v = e.rgb[i]
                 /\ p = <<1, 2>> => v = (s.rgb[i] + e.rgb[i] + 1) \div 2

\* black to white at progress 1/2: 127.5 rounds to 128
C2_Witness ==
    /\ pc = "returned" /\ fnArgs.startHex = Black /\ fnArgs.endHex = White
    /\ fnArgs.progress = <<1, 2>> /\ ~fnRet.err
    /\ fnRet.color.rgb = <<128, 128, 128>>

(***************************************************************************)
(* C11: in the program that offers --colorspace, with the hcl color space  *)
(* the color of a unit whose progress lies strictly between 0 and 1        *)
(* depends on --hue-direction: for the same progress and endpoints (the    *)
(* default magenta and cyan, whose hues differ), clockwise and             *)
(* counter-clockwise give different colors.                                *)
(***************************************************************************)
C11_ColorDependsOnHueDirection ==
    (variant = "flag" /\ cfg.colorspace = "hcl" /\ calls # <<>>) =>
        LET p == calls[Len(calls)].p
            cw == getGradientColorSpace(p, cfg.startColor, cfg.endColor,
                                        cfg.colorspace, "clockwise")
            ccw == getGradientColorSpace(p, cfg.startColor, cfg.endColor,
                                         cfg.colorspace, "counter-clockwise")
        IN (RLess(Zero, p) /\ RLess(p, One)) =>
              /\ ~cw.err /\ ~ccw.err
              /\ cw.color # ccw.color

(***************************************************************************)
(* C12: with hue direction shortest (and in the default branch) the hue    *)
(* delta is the difference of the normalized hues, end - start, folded     *)
(* into (-180, 180]: it is congruent to the difference modulo 360, its     *)
(* magnitude is at most 180, and a difference of magnitude 180 gives +180. *)
(***************************************************************************)
IsShortest(hueDirection) ==
    hueDirection \notin {"clockwise", "cw", "counter-clockwise",
                         "counterclockwise", "ccw"}
Returned == pc = "returned"
RawDifference == RSub(fnRet.h2, fnRet.h1)
HuesNormalized ==
    /\ RLeq(Zero, fnRet.h1) /\ RLess(fnRet.h1, FromInt(360))
    /\ RLeq(Zero, fnRet.h2) /\ RLess(fnRet.h2, FromInt(360))
CongruentToDifference ==
    fnRet.deltaH \in {RawDifference, RSub(RawDifference, FromInt(360)),
                      RAdd(RawDifference, FromInt(360))}

C12_ShortestDeltaInHalfOpenInterval ==
    (Returned /\ IsShortest(fnArgs.hueDirection)) =>
        /\ HuesNormalized
        /\ CongruentToDifference
        /\ RLess(FromInt(-180), fnRet.deltaH)
        /\ RLeq(fnRet.deltaH, FromInt(180))
        /\ RawDifference \in {FromInt(180), FromInt(-180)} =>
              fnRet.deltaH = FromInt(180)

(***************************************************************************)
(* C12 as the code has it: the delta is congruent to the difference modulo *)
(* 360 and lies in the closed interval [-180, 180]; a difference of        *)
(* magnitude other than 180 is folded into (-180, 180), a difference of    *)
(* +180 or -180 is kept with its sign.                                     *)
(***************************************************************************)
C12_ShortestDeltaInClosedInterval ==
    (Returned /\ IsShortest(fnArgs.hueDirection)) =>
        /\ HuesNormalized
        /\ CongruentToDifference
        /\ RLeq(FromInt(-180), fnRet.deltaH)
        /\ RLeq(fnRet.deltaH, FromInt(180))
        /\ RawDifference \in {FromInt(180), FromInt(-180)} =>
              fnRet.deltaH = RawDifference

\* from hue 270 to hue 90 the shortest delta is -180
C12_Witness ==
    /\ Returned /\ fnArgs.hueDirection = "shortest"
    /\ fnRet.h1 = FromInt(270) /\ fnRet.h2 = FromInt(90)
    /\ fnRet.deltaH = FromInt(-180)

(***************************************************************************)
(* C13: for normalized hues, clockwise gives the delta                     *)
(* ((end - start) + 360) mod 360, in [0, 360), and counter-clockwise gives *)
(* -(((start - end) + 360) mod 360), in (-360, 0]; for progress from 0 to  *)
(* 1 the hue before wrapping, start + progress * delta, never decreases    *)
(* under clockwise and never increases under counter-clockwise; at         *)
(* progress 0 the blend's hue is the start hue and at progress 1 it is the *)
(* end hue.                                                                *)
(***************************************************************************)
IsClockwise(hueDirection) == hueDirection \in {"clockwise", "cw"}
IsCounterClockwise(hueDirection) ==
    hueDirection \in {"counter-clockwise", "counterclockwise", "ccw"}
InUnit(t) == RLeq(Zero, t) /\ RLeq(t, One)
UnwrappedAt(t) ==
    blendHCLWithDirection(fnArgs.c1, fnArgs.c2, t, fnArgs.hueDirection).unwrapped

C13_DirectedDeltas ==
    (Returned /\ ~IsShortest(fnArgs.hueDirection)) =>
        LET s == fnRet.h1
            e == fnRet.h2
            d == fnRet.deltaH
            t == fnArgs.t
        IN /\ HuesNormalized
           /\ s[2] = 1 /\ e[2] = 1
           /\ IsClockwise(fnArgs.hueDirection) =>
                 /\ d = FromInt(((e[1] - s[1]) + 360) % 360)
                 /\ RLeq(Zero, d) /\ RLess(d, FromInt(360))
                 /\ \A t2 \in Progresses :
                      (InUnit(t) /\ InUnit(t2) /\ RLeq(t, t2)) =>
                          RLeq(fnRet.unwrapped, UnwrappedAt(t2))
           /\ IsCounterClockwise(fnArgs.hueDirection) =>
                 /\ d = FromInt(-(((s[1] - e[1]) + 360) % 360))
                 /\ RLess(FromInt(-360), d) /\ RLeq(d, Zero)
                 /\ \A t2 \in Progresses :
                      (InUnit(t) /\ InUnit(t2) /\ RLeq(t, t2)) =>
                          RLeq(UnwrappedAt(t2), fnRet.unwrapped)
           /\ t = Zero => fnRet.h = s
           /\ t = One => fnRet.h = e

\* clockwise from hue 330 to hue 30 is a delta of 60; halfway the hue is 0
C13_Witness ==
    /\ Returned /\ fnArgs.hueDirection = "clockwise"
    /\ fnRet.h1 = FromInt(330) /\ fnRet.h2 = FromInt(30)
    /\ fnRet.deltaH = FromInt(60)
    /\ fnArgs.t = Norm(1, 2) /\ fnRet.h = Zero

(***************************************************************************)
(* C14: hexToRGB returns an error for every string that is not '#'         *)
(* followed by six hexadecimal digits, so getGradientColor fails when an   *)
(* endpoint is such a string; when hexToRGB succeeds every channel is in   *)
(* 0..255.                                                                 *)
(***************************************************************************)
C14_HexToRGBRejectsMalformed ==
    Returned =>
        /\ \A hexColor \in {fnArgs.startHex, fnArgs.endHex} :
             LET res == hexToRGB(hexColor)
             IN /\ ~WellFormedColor(hexColor) => res.err
                /\ ~res.err => ChannelsInRange(res.rgb)
        /\ (~WellFormedColor(fnArgs.startHex) \/ ~WellFormedColor(fnArgs.endHex))
              => fnRet.err

(***************************************************************************)
(* C15: nothing is written to stdout before stdin has been read to its     *)
(* end: while the program is still reading, and when a read fails, stdout  *)
(* is empty; a failed read ends the run with exit code 1; once output has  *)
(* started nothing more is read.                                           *)
(***************************************************************************)
BeforeEndOfInput(p) == p \in {"start", "validate", "read"}

C15_NoOutputBeforeEndOfInput ==
    [][~Informational =>
         /\ out' # <<>> => ~BeforeEndOfInput(pc')
         /\ (pc = "read" /\ pc' = "exited") => (exitCode' = 1 /\ out' = <<>>)
         /\ out # <<>> =>
               (stdinReads' = stdinReads /\ lines' = lines /\ runes' = runes)]_vars

\* a read fails after one line was buffered
C15_Witness ==
    /\ ~Informational /\ pc = "exited" /\ exitCode = 1
    /\ Len(lines) >= 1 /\ stdinReads = Len(lines) + 1
    /\ out = <<>> /\ calls = <<>>

(***************************************************************************)
(* C16: every progress with which the rendering loop calls                 *)
(* getGradientColor lies in [0, 1], whatever the position, the number of   *)
(* units, --invert and --steps >= 0; with such a progress the argument of  *)
(* blendHCLWithDirection's last math.Mod, start + progress * delta + 360,  *)
(* is not negative, for every pair of endpoint hues and every hue          *)
(* direction, and the blend's hue lies in [0, 360).                        *)
(***************************************************************************)
C16_ProgressWithinUnitInterval ==
    (Returned /\ fnArgs.t \in LoopProgresses) =>
        /\ InUnit(fnArgs.t)
        /\ RLeq(Zero, fnRet.unwrapped)
        /\ RLeq(Zero, fnRet.h) /\ RLess(fnRet.h, FromInt(360))

\* the first unit of an inverted gradient (progress 1) on the longest
\* counter-clockwise sweep of the sampled hues
C16_Witness ==
    /\ Returned /\ fnArgs.hueDirection = "counter-clockwise"
    /\ fnArgs.t = One /\ fnArgs.t \in LoopProgresses
    /\ fnRet.h1 = Zero /\ fnRet.h2 = FromInt(30)
    /\ fnRet.deltaH = FromInt(-330) /\ fnRet.unwrapped = FromInt(30)

====
